---------------------------- MODULE Spec2Model ----------------------------
(***************************************************************************)
(* Model of getlantern/bytemap: a map[string]interface{} encoded as one    *)
(* byte slice (header region of entries, then the value region), with the  *)
(* Builder (Build/New/FromSortedKeysAndValues), the Reader (Get, GetBytes, *)
(* Iterate, AsMap) and the Projector (Slice/Split via doSplit and          *)
(* buildFromSliced).                                                       *)
(*                                                                         *)
(* Byte slices are sequences of 0..255; Go offsets are 0-based, so the     *)
(* byte at Go offset i of slice s is s[i+1].  A Go slice with a length     *)
(* shorter than its capacity (bm[:i]) is the pair (backing array, length). *)
(* A run-time panic (index or slice bound out of range) is the outcome     *)
(* fault = TRUE of the operation.                                          *)
(***************************************************************************)
EXTENDS Integers, Sequences, FiniteSets, TLC

(***************************************************************************)
(* Type tags and field sizes.                                              *)
(***************************************************************************)
TypeNil == 0
TypeBool == 1
TypeByte == 2
TypeUInt16 == 3
TypeUInt32 == 4
TypeUInt64 == 5
TypeInt8 == 6
TypeInt16 == 7
TypeInt32 == 8
TypeInt64 == 9
TypeInt == 10
TypeFloat32 == 11
TypeFloat64 == 12
TypeString == 13
TypeTime == 14
TypeUInt == 15

SizeKeyLen == 2
SizeValueType == 1
SizeValueOffset == 4

(***************************************************************************)
(* Bounds of the model.                                                    *)
(***************************************************************************)
MaxKeys == 3
MaxReq == 2

(***************************************************************************)
(* Generic helpers on sequences.                                           *)
(***************************************************************************)
Min(a, b) == IF a < b THEN a ELSE b

Zeros(n) == [i \in 1..n |-> 0]

\* s[from:to] of Go, 0-based, to exclusive
Slice0(s, from, to) == SubSeq(s, from + 1, to)

\* copy(dst[off:], src): copies min(len(dst)-off, len(src)) bytes
Copy(dst, off, src) ==
  LET n == Min(Len(src), Len(dst) - off)
  IN SubSeq(dst, 1, off) \o SubSeq(src, 1, n) \o SubSeq(dst, off + n + 1, Len(dst))

(***************************************************************************)
(* enc = binary.LittleEndian.  PutLE(n, v) is the n bytes PutUintN writes  *)
(* for the conversion uintN(v): v modulo 2^(8n), two's complement for a    *)
(* negative v.  LE(s) is UintN(s).  Signed(s) is the conversion            *)
(* intN(UintN(s)).                                                         *)
(***************************************************************************)
RECURSIVE PutLE(_, _)
PutLE(n, v) == IF n = 0 THEN <<>> ELSE <<v % 256>> \o PutLE(n - 1, v \div 256)

RECURSIVE LE(_)
LE(s) == IF s = <<>> THEN 0 ELSE Head(s) + 256 * LE(Tail(s))

Signed(s) ==
  IF s[Len(s)] >= 128
    THEN -(LE([i \in 1..Len(s) |-> 255 - s[i]]) + 1)
    ELSE LE(s)

(***************************************************************************)
(* Go values: [kind, v].  kind is the dynamic type the type switch of      *)
(* encodeValue sees; "other" is any type outside the supported set (such   *)
(* as []byte), "nil" the nil interface.  The payload v is a tuple: <<n>>   *)
(* for an integer n, <<1>> or <<0>> for true or false, the bytes of a      *)
(* string, the IEEE-754 fields <<s, e, f>> of a float (sign, biased        *)
(* exponent, fraction), <<n>> for the time.Time at n nanoseconds since the *)
(* Unix epoch.                                                             *)
(***************************************************************************)
V(kind, v) == [kind |-> kind, v |-> v]

NilV == V("nil", <<>>)
BoolV(b) == V("bool", <<IF b THEN 1 ELSE 0>>)
IntV(kind, n) == V(kind, <<n>>)
FloatV(kind, x) == V(kind, <<x.s, x.e, x.f>>)
StringV(bytes) == V("string", bytes)
TimeV(nanos) == V("time", <<nanos>>)
OtherV == V("other", <<>>)

\* the fields of a float payload
Flt(v) == [s |-> v[1], e |-> v[2], f |-> v[3]]

\* math.Float32bits followed by PutUint32
Float32Bytes(x) ==
  << x.f % 256, (x.f \div 256) % 256,
     ((x.e % 2) * 128) + ((x.f \div 65536) % 128),
     (x.s * 128) + (x.e \div 2) >>

\* enc.Uint32 followed by math.Float32frombits
Float32From(b) ==
  [s |-> b[4] \div 128,
   e |-> ((b[4] % 128) * 2) + (b[3] \div 128),
   f |-> ((b[3] % 128) * 65536) + (b[2] * 256) + b[1]]

\* math.Float64bits followed by PutUint64 (fractions below 2^24)
Float64Bytes(x) ==
  << x.f % 256, (x.f \div 256) % 256, (x.f \div 65536) % 256, 0, 0, 0,
     (x.e % 16) * 16, (x.s * 128) + (x.e \div 16) >>

\* enc.Uint64 followed by math.Float64frombits
Float64From(b) ==
  [s |-> b[8] \div 128,
   e |-> ((b[8] % 128) * 16) + (b[7] \div 16),
   f |-> LE(<<b[1], b[2], b[3], b[4], b[5], b[6], b[7] % 16>>)]

Second == 1000000000

\* Go's integer division and remainder truncate toward zero
GoDiv(a, b) == IF a >= 0 THEN a \div b ELSE -((-a) \div b)
GoRem(a, b) == a - b * GoDiv(a, b)

\* time.Unix(sec, nsec): nsec outside [0, 1e9) is carried into sec; the
\* result is the instant, in nanoseconds
TimeUnix(sec, nsec) ==
  IF nsec < 0 \/ nsec >= Second
    THEN LET n == GoDiv(nsec, Second)
             sec1 == sec + n
             nsec1 == nsec - n * Second
         IN IF nsec1 < 0 THEN (sec1 - 1) * Second + (nsec1 + Second)
                         ELSE sec1 * Second + nsec1
    ELSE sec * Second + nsec

(***************************************************************************)
(* encodeValue(slice, value): the type tag and the width n it returns, the *)
(* bytes it writes through PutUintN or slice[0] = .. (put: a panic when    *)
(* the slice is shorter) and the bytes it writes through copy(slice[2:],v) *)
(* (copied: cut short when the slice is shorter).                          *)
(***************************************************************************)
Enc(t, n, put, copied) == [t |-> t, n |-> n, put |-> put, copied |-> copied]

encodeValue(value) ==
  CASE value.kind = "bool"    -> Enc(TypeBool, 1, <<IF value.v[1] = 1 THEN 1 ELSE 0>>, <<>>)
    [] value.kind = "byte"    -> Enc(TypeByte, 1, <<value.v[1]>>, <<>>)
    [] value.kind = "uint16"  -> Enc(TypeUInt16, 2, PutLE(2, value.v[1]), <<>>)
    [] value.kind = "uint32"  -> Enc(TypeUInt32, 4, PutLE(4, value.v[1]), <<>>)
    [] value.kind = "uint64"  -> Enc(TypeUInt64, 8, PutLE(8, value.v[1]), <<>>)
    [] value.kind = "uint"    -> Enc(TypeUInt, 8, PutLE(8, value.v[1]), <<>>)
    [] value.kind = "int8"    -> Enc(TypeInt8, 1, PutLE(1, value.v[1]), <<>>)
    [] value.kind = "int16"   -> Enc(TypeInt16, 2, PutLE(2, value.v[1]), <<>>)
    [] value.kind = "int32"   -> Enc(TypeInt32, 4, PutLE(4, value.v[1]), <<>>)
    [] value.kind = "int64"   -> Enc(TypeInt64, 8, PutLE(8, value.v[1]), <<>>)
    [] value.kind = "int"     -> Enc(TypeInt, 8, PutLE(8, value.v[1]), <<>>)
    [] value.kind = "float32" -> Enc(TypeFloat32, 4, Float32Bytes(Flt(value.v)), <<>>)
    [] value.kind = "float64" -> Enc(TypeFloat64, 8, Float64Bytes(Flt(value.v)), <<>>)
    [] value.kind = "string"  ->
         Enc(TypeString, Len(value.v) + 2, PutLE(2, Len(value.v)), value.v)
    [] value.kind = "time"    -> Enc(TypeTime, 8, PutLE(8, value.v[1]), <<>>)
    [] OTHER                  -> Enc(TypeNil, 0, <<>>, <<>>)

\* the bytes encodeValue leaves in a slice that is long enough
encodedBytes(value) == encodeValue(value).put \o encodeValue(value).copied

\* encodedLength with the length prefix of a string left out
encodedLengthNoPrefix(value) ==
  CASE value.kind \in {"bool", "byte", "int8"}         -> 1
    [] value.kind \in {"uint16", "int16"}              -> 2
    [] value.kind \in {"uint32", "int32", "float32"}   -> 4
    [] value.kind \in {"uint64", "int64", "uint", "int", "float64", "time"} -> 8
    [] value.kind = "string"                           -> Len(value.v)
    [] OTHER                                           -> 0

\* encodedLength giving a value of an unsupported type one byte
encodedLengthCountsOther(value) ==
  CASE value.kind \in {"bool", "byte", "int8", "other"} -> 1
    [] value.kind \in {"uint16", "int16"}              -> 2
    [] value.kind \in {"uint32", "int32", "float32"}   -> 4
    [] value.kind \in {"uint64", "int64", "uint", "int", "float64", "time"} -> 8
    [] value.kind = "string"                           -> Len(value.v) + 2
    [] OTHER                                           -> 0

encodedLength(value) ==
  CASE value.kind \in {"bool", "byte", "int8"}         -> 1
    [] value.kind \in {"uint16", "int16"}              -> 2
    [] value.kind \in {"uint32", "int32", "float32"}   -> 4
    [] value.kind \in {"uint64", "int64", "uint", "int", "float64", "time"} -> 8
    [] value.kind = "string"                           -> Len(value.v) + 2
    [] OTHER                                           -> 0

(***************************************************************************)
(* A slice read: the bytes data[off .. off+n) of a slice whose length is   *)
(* len.  Need(len, off, n) is the bounds check of slice[i] and of          *)
(* enc.UintN(slice) on the slice data[off:len].                            *)
(***************************************************************************)
Need(len, off, n) == off + n <= len

Dec(fault, val) == [fault |-> fault, val |-> val]

\* a []byte result: the nil slice, or the bytes b
NilBytes == [nil |-> TRUE, b |-> <<>>]
BytesOf(b) == [nil |-> FALSE, b |-> b]

\* decodeValue(slice, t) for slice = bm[off:], bm of length len over the
\* backing array data (slice[2 : l+2] is checked against the capacity)
decodeValue(data, len, off, t) ==
  LET F(n) == Slice0(data, off, off + n)
  IN CASE t = TypeBool    -> IF Need(len, off, 1) THEN Dec(FALSE, BoolV(data[off + 1] = 1))
                                                  ELSE Dec(TRUE, NilV)
       [] t = TypeByte    -> IF Need(len, off, 1) THEN Dec(FALSE, IntV("byte", data[off + 1]))
                                                  ELSE Dec(TRUE, NilV)
       [] t = TypeUInt16  -> IF Need(len, off, 2) THEN Dec(FALSE, IntV("uint16", LE(F(2))))
                                                  ELSE Dec(TRUE, NilV)
       [] t = TypeUInt32  -> IF Need(len, off, 4) THEN Dec(FALSE, IntV("uint32", LE(F(4))))
                                                  ELSE Dec(TRUE, NilV)
       [] t = TypeUInt64  -> IF Need(len, off, 8) THEN Dec(FALSE, IntV("uint64", LE(F(8))))
                                                  ELSE Dec(TRUE, NilV)
       [] t = TypeUInt    -> IF Need(len, off, 8) THEN Dec(FALSE, IntV("uint", LE(F(8))))
                                                  ELSE Dec(TRUE, NilV)
       [] t = TypeInt8    -> IF Need(len, off, 1) THEN Dec(FALSE, IntV("int8", Signed(F(1))))
                                                  ELSE Dec(TRUE, NilV)
       [] t = TypeInt16   -> IF Need(len, off, 2) THEN Dec(FALSE, IntV("int16", Signed(F(2))))
                                                  ELSE Dec(TRUE, NilV)
       [] t = TypeInt32   -> IF Need(len, off, 4) THEN Dec(FALSE, IntV("int32", Signed(F(4))))
                                                  ELSE Dec(TRUE, NilV)
       [] t = TypeInt64   -> IF Need(len, off, 8) THEN Dec(FALSE, IntV("int64", Signed(F(8))))
                                                  ELSE Dec(TRUE, NilV)
       [] t = TypeInt     -> IF Need(len, off, 8) THEN Dec(FALSE, IntV("int", Signed(F(8))))
                                                  ELSE Dec(TRUE, NilV)
       [] t = TypeFloat32 -> IF Need(len, off, 4) THEN Dec(FALSE, FloatV("float32", Float32From(F(4))))
                                                  ELSE Dec(TRUE, NilV)
       [] t = TypeFloat64 -> IF Need(len, off, 8) THEN Dec(FALSE, FloatV("float64", Float64From(F(8))))
                                                  ELSE Dec(TRUE, NilV)
       [] t = TypeString  ->
            IF ~Need(len, off, 2) THEN Dec(TRUE, NilV)
            ELSE LET l == LE(F(2))
                 IN IF off + l + 2 > Len(data) THEN Dec(TRUE, NilV)
                    ELSE Dec(FALSE, StringV(Slice0(data, off + 2, off + l + 2)))
       [] t = TypeTime    ->
            IF ~Need(len, off, 8) THEN Dec(TRUE, NilV)
            ELSE LET nanos == Signed(F(8))
                 IN Dec(FALSE, TimeV(TimeUnix(GoDiv(nanos, Second), GoRem(nanos, Second))))
       [] OTHER           -> Dec(FALSE, NilV)

\* valueBytes returning slice[0 : l] for a string
valueBytesNoPrefix(data, len, off, t) ==
  LET cut(n) == IF off + n <= Len(data)
                  THEN Dec(FALSE, BytesOf(Slice0(data, off, off + n)))
                  ELSE Dec(TRUE, NilBytes)
  IN CASE t \in {TypeBool, TypeByte, TypeInt8}                           -> cut(1)
       [] t \in {TypeUInt16, TypeInt16}                                  -> cut(2)
       [] t \in {TypeUInt32, TypeInt32, TypeFloat32}                     -> cut(4)
       [] t \in {TypeUInt64, TypeUInt, TypeInt64, TypeInt, TypeFloat64}  -> cut(8)
       [] t = TypeString ->
            IF ~Need(len, off, 2) THEN Dec(TRUE, NilBytes)
            ELSE cut(LE(Slice0(data, off, off + 2)))
       [] t = TypeTime                                                   -> cut(8)
       [] OTHER                                                          -> Dec(FALSE, NilBytes)

\* valueBytes(slice, t) for slice = bm[off:]: slice[:n] is checked against
\* the capacity of the slice, the length prefix read against its length
valueBytes(data, len, off, t) ==
  LET cut(n) == IF off + n <= Len(data)
                  THEN Dec(FALSE, BytesOf(Slice0(data, off, off + n)))
                  ELSE Dec(TRUE, NilBytes)
  IN CASE t \in {TypeBool, TypeByte, TypeInt8}                           -> cut(1)
       [] t \in {TypeUInt16, TypeInt16}                                  -> cut(2)
       [] t \in {TypeUInt32, TypeInt32, TypeFloat32}                     -> cut(4)
       [] t \in {TypeUInt64, TypeUInt, TypeInt64, TypeInt, TypeFloat64}  -> cut(8)
       [] t = TypeString ->
            IF ~Need(len, off, 2) THEN Dec(TRUE, NilBytes)
            ELSE cut(LE(Slice0(data, off, off + 2)) + 2)
       [] t = TypeTime                                                   -> cut(8)
       [] OTHER                                                          -> Dec(FALSE, NilBytes)

(***************************************************************************)
(* Keys are strings: sequences of bytes, ordered byte-wise as Go orders    *)
(* strings (sort.Strings) and byte slices (bytes.Compare).                 *)
(***************************************************************************)
RECURSIVE Compare(_, _)
Compare(a, b) ==
  IF a = <<>> THEN (IF b = <<>> THEN 0 ELSE -1)
  ELSE IF b = <<>> THEN 1
  ELSE IF Head(a) < Head(b) THEN -1
  ELSE IF Head(a) > Head(b) THEN 1
  ELSE Compare(Tail(a), Tail(b))

RECURSIVE Insert(_, _)
Insert(k, s) ==
  IF s = <<>> THEN <<k>>
  ELSE IF Compare(k, Head(s)) <= 0 THEN <<k>> \o s
  ELSE <<Head(s)>> \o Insert(k, Tail(s))

\* sort.Strings
RECURSIVE SortStrings(_)
SortStrings(s) == IF s = <<>> THEN <<>> ELSE Insert(Head(s), SortStrings(Tail(s)))

IsSorted(s) == \A i \in 1..(Len(s) - 1) : Compare(s[i], s[i + 1]) <= 0

(***************************************************************************)
(* Build(iterate, valueFor, iteratesSorted).  iterate is the sequence of   *)
(* (key, value) pairs in the order the iterate function calls back;        *)
(* valueFor is the function key -> value.                                  *)
(***************************************************************************)
Pair(key, value) == [key |-> key, value |-> value]

\* recordKey: the entry's share of keysLen
recordKeyLen(p) ==
  Len(p.key) + SizeKeyLen + SizeValueType
    + (IF encodedLength(p.value) > 0 THEN SizeValueOffset ELSE 0)

RECURSIVE SumKeysLen(_)
SumKeysLen(pairs) ==
  IF pairs = <<>> THEN 0 ELSE recordKeyLen(Head(pairs)) + SumKeysLen(Tail(pairs))

RECURSIVE SumValuesLen(_)
SumValuesLen(pairs) ==
  IF pairs = <<>> THEN 0 ELSE encodedLength(Head(pairs).value) + SumValuesLen(Tail(pairs))

\* the callback writing valueOffset after it has added the value's width
BuildEntryOffsetAfter(st, p) ==
  LET len == Len(st.bm)
      keyLen == Len(p.key)
      ko1 == st.keyOffset + SizeKeyLen + keyLen
      e == encodeValue(p.value)
      ko2 == ko1 + SizeValueType
  IN IF st.fault THEN st
     ELSE IF ~Need(len, st.keyOffset, SizeKeyLen) THEN [st EXCEPT !.fault = TRUE]
     ELSE IF st.valueOffset > len \/ ~Need(len, st.valueOffset, Len(e.put))
       THEN [st EXCEPT !.fault = TRUE]
     ELSE IF ko1 >= len THEN [st EXCEPT !.fault = TRUE]
     ELSE IF e.t # TypeNil /\ ~Need(len, ko2, SizeValueOffset)
       THEN [st EXCEPT !.fault = TRUE]
     ELSE
       LET b1 == Copy(st.bm, st.keyOffset, PutLE(2, keyLen))
           b2 == Copy(b1, st.keyOffset + SizeKeyLen, p.key)
           b3 == Copy(Copy(b2, st.valueOffset, e.put),
                      st.valueOffset + Len(e.put), e.copied)
           b4 == Copy(b3, ko1, <<e.t>>)
       IN IF e.t # TypeNil
            THEN [bm |-> Copy(b4, ko2, PutLE(4, st.valueOffset + e.n)),
                  keyOffset |-> ko2 + SizeValueOffset,
                  valueOffset |-> st.valueOffset + e.n,
                  fault |-> FALSE]
            ELSE [bm |-> b4, keyOffset |-> ko2,
                  valueOffset |-> st.valueOffset, fault |-> FALSE]

\* the callback of finalIterate in Build, on the builder state st
BuildEntry(st, p) ==
  LET len == Len(st.bm)
      keyLen == Len(p.key)
      ko1 == st.keyOffset + SizeKeyLen + keyLen
      e == encodeValue(p.value)
      ko2 == ko1 + SizeValueType
  IN IF st.fault THEN st
     ELSE IF ~Need(len, st.keyOffset, SizeKeyLen) THEN [st EXCEPT !.fault = TRUE]
     ELSE IF st.valueOffset > len \/ ~Need(len, st.valueOffset, Len(e.put))
       THEN [st EXCEPT !.fault = TRUE]
     ELSE IF ko1 >= len THEN [st EXCEPT !.fault = TRUE]
     ELSE IF e.t # TypeNil /\ ~Need(len, ko2, SizeValueOffset)
       THEN [st EXCEPT !.fault = TRUE]
     ELSE
       LET b1 == Copy(st.bm, st.keyOffset, PutLE(2, keyLen))
           b2 == Copy(b1, st.keyOffset + SizeKeyLen, p.key)
           b3 == Copy(Copy(b2, st.valueOffset, e.put),
                      st.valueOffset + Len(e.put), e.copied)
           b4 == Copy(b3, ko1, <<e.t>>)
       IN IF e.t # TypeNil
            THEN [bm |-> Copy(b4, ko2, PutLE(4, st.valueOffset)),
                  keyOffset |-> ko2 + SizeValueOffset,
                  valueOffset |-> st.valueOffset + e.n,
                  fault |-> FALSE]
            ELSE [bm |-> b4, keyOffset |-> ko2,
                  valueOffset |-> st.valueOffset, fault |-> FALSE]

RECURSIVE BuildLoop(_, _)
BuildLoop(st, pairs) ==
  IF pairs = <<>> THEN st ELSE BuildLoop(BuildEntry(st, Head(pairs)), Tail(pairs))

\* Build laying the entries out in the order of iterate, without the sort
finalIterateUnsorted(iterate, valueFor, iteratesSorted) == iterate

\* the order Build lays the entries out in
finalIterate(iterate, valueFor, iteratesSorted) ==
  IF iteratesSorted THEN iterate
  ELSE LET sortedKeys == SortStrings([i \in 1..Len(iterate) |-> iterate[i].key])
       IN [i \in 1..Len(sortedKeys) |-> Pair(sortedKeys[i], valueFor[sortedKeys[i]])]

Build(iterate, valueFor, iteratesSorted) ==
  LET keysLen == SumKeysLen(iterate)
      valuesLen == SumValuesLen(iterate)
      startOfValues == keysLen
      st == BuildLoop([bm |-> Zeros(startOfValues + valuesLen), keyOffset |-> 0,
                       valueOffset |-> startOfValues, fault |-> FALSE],
                      finalIterate(iterate, valueFor, iteratesSorted))
  IN [fault |-> st.fault, bm |-> st.bm]

\* New(m), the range loop over m calling back in the order `order`
New(m, order) == Build([i \in 1..Len(order) |-> Pair(order[i], m[order[i]])], m, FALSE)

FromSortedKeysAndValues(keys, values) ==
  Build([i \in 1..Len(keys) |-> Pair(keys[i], values[i])], <<>>, TRUE)

(***************************************************************************)
(* Get and GetBytes on the slice (data, len).  Got(fault, past, val):      *)
(* fault is a panic, past a read of bytes at or beyond len that does not   *)
(* panic (a two-index slice expression is checked against the capacity).   *)
(***************************************************************************)
Got(fault, past, val) == [fault |-> fault, past |-> past, val |-> val]

RECURSIVE GetLoop(_, _, _, _, _, _, _)
GetLoop(data, len, key, bytesWanted, keyOffset, firstValueOffset, past) ==
  LET none == IF bytesWanted THEN NilBytes ELSE NilV
  IN
  IF keyOffset >= len THEN Got(FALSE, past, none)
  ELSE IF ~Need(len, keyOffset, SizeKeyLen) THEN Got(TRUE, past, none)
  ELSE
    LET keyLen == LE(Slice0(data, keyOffset, keyOffset + SizeKeyLen))
        ko1 == keyOffset + SizeKeyLen
        ko2 == ko1 + keyLen
    IN IF ko2 > Len(data) THEN Got(TRUE, past, none)
       ELSE
         LET keysMatch == Slice0(data, ko1, ko2) = key
             past1 == past \/ ko2 > len
         IN IF ko2 >= len THEN Got(TRUE, past1, none)
            ELSE
              LET t == data[ko2 + 1]
                  ko3 == ko2 + SizeValueType
              IN IF t = TypeNil
                   THEN IF keysMatch THEN Got(FALSE, past1, none)
                        ELSE IF firstValueOffset > 0 /\ ko3 >= firstValueOffset
                          THEN Got(FALSE, past1, none)
                          ELSE GetLoop(data, len, key, bytesWanted, ko3,
                                       firstValueOffset, past1)
                   ELSE IF ~Need(len, ko3, SizeValueOffset) THEN Got(TRUE, past1, none)
                   ELSE
                     LET valueOffset == LE(Slice0(data, ko3, ko3 + SizeValueOffset))
                         fvo == IF firstValueOffset = 0 THEN valueOffset
                                                        ELSE firstValueOffset
                         ko4 == ko3 + SizeValueOffset
                     IN IF keysMatch
                          THEN IF valueOffset > len THEN Got(TRUE, past1, none)
                               ELSE LET d == IF bytesWanted
                                               THEN valueBytes(data, len, valueOffset, t)
                                               ELSE decodeValue(data, len, valueOffset, t)
                                    IN Got(d.fault, past1, d.val)
                          ELSE IF fvo > 0 /\ ko4 >= fvo THEN Got(FALSE, past1, none)
                          ELSE GetLoop(data, len, key, bytesWanted, ko4, fvo, past1)

\* the scan of Get giving up at the first entry whose key sorts after the
\* key sought, as a scan that relies on the ascending order would
RECURSIVE GetSortedLoop(_, _, _, _, _, _, _)
GetSortedLoop(data, len, key, bytesWanted, keyOffset, firstValueOffset, past) ==
  LET none == IF bytesWanted THEN NilBytes ELSE NilV
  IN
  IF keyOffset >= len THEN Got(FALSE, past, none)
  ELSE IF ~Need(len, keyOffset, SizeKeyLen) THEN Got(TRUE, past, none)
  ELSE
    LET keyLen == LE(Slice0(data, keyOffset, keyOffset + SizeKeyLen))
        ko1 == keyOffset + SizeKeyLen
        ko2 == ko1 + keyLen
    IN IF ko2 > Len(data) THEN Got(TRUE, past, none)
       ELSE
         LET keysMatch == Slice0(data, ko1, ko2) = key
             past1 == past \/ ko2 > len
         IN IF ko2 >= len THEN Got(TRUE, past1, none)
            ELSE IF Compare(Slice0(data, ko1, ko2), key) > 0 THEN Got(FALSE, past1, none)
            ELSE
              LET t == data[ko2 + 1]
                  ko3 == ko2 + SizeValueType
              IN IF t = TypeNil
                   THEN IF keysMatch THEN Got(FALSE, past1, none)
                        ELSE IF firstValueOffset > 0 /\ ko3 >= firstValueOffset
                          THEN Got(FALSE, past1, none)
                          ELSE GetSortedLoop(data, len, key, bytesWanted, ko3,
                                       firstValueOffset, past1)
                   ELSE IF ~Need(len, ko3, SizeValueOffset) THEN Got(TRUE, past1, none)
                   ELSE
                     LET valueOffset == LE(Slice0(data, ko3, ko3 + SizeValueOffset))
                         fvo == IF firstValueOffset = 0 THEN valueOffset
                                                        ELSE firstValueOffset
                         ko4 == ko3 + SizeValueOffset
                     IN IF keysMatch
                          THEN IF valueOffset > len THEN Got(TRUE, past1, none)
                               ELSE LET d == IF bytesWanted
                                               THEN valueBytes(data, len, valueOffset, t)
                                               ELSE decodeValue(data, len, valueOffset, t)
                                    IN Got(d.fault, past1, d.val)
                          ELSE IF fvo > 0 /\ ko4 >= fvo THEN Got(FALSE, past1, none)
                          ELSE GetSortedLoop(data, len, key, bytesWanted, ko4, fvo, past1)

GetStopsPastKey(data, len, key) == GetSortedLoop(data, len, key, FALSE, 0, 0, FALSE)

\* Get with firstValueOffset starting non-zero: the scan ends at the first
\* entry's end
GetFirstEntryOnly(data, len, key) == GetLoop(data, len, key, FALSE, 0, 1, FALSE)

\* Get reading the first key length before it looks for the end of the
\* buffer
GetReadsFirst(data, len, key) ==
  IF len = 0 THEN Got(TRUE, FALSE, NilV)
  ELSE GetLoop(data, len, key, FALSE, 0, 0, FALSE)

Get(data, len, key) == GetLoop(data, len, key, FALSE, 0, 0, FALSE)

GetBytes(data, len, key) == GetLoop(data, len, key, TRUE, 0, 0, FALSE)

(***************************************************************************)
(* Iterate(includeValue, includeBytes, cb) on the slice (data, len).  The  *)
(* callback returns true, except that its call number stopAt returns false *)
(* (stopAt = 0: it never does).  The result is the sequence of the calls   *)
(* made, each with the arguments the callback received.                    *)
(***************************************************************************)
Call(key, value, bytes) == [key |-> key, value |-> value, bytes |-> bytes]

Iterated(fault, calls) == [fault |-> fault, calls |-> calls]

RECURSIVE IterateLoop(_, _, _, _, _, _, _, _)
IterateLoop(data, len, includeValue, includeBytes, stopAt, keyOffset, firstValueOffset, calls) ==
  IF keyOffset >= len THEN Iterated(FALSE, calls)
  ELSE IF ~Need(len, keyOffset, SizeKeyLen) THEN Iterated(TRUE, calls)
  ELSE
    LET keyLen == LE(Slice0(data, keyOffset, keyOffset + SizeKeyLen))
        ko1 == keyOffset + SizeKeyLen
        ko2 == ko1 + keyLen
    IN IF ko2 > Len(data) \/ ko2 >= len THEN Iterated(TRUE, calls)
       ELSE
         LET key == Slice0(data, ko1, ko2)
             t == data[ko2 + 1]
             ko3 == ko2 + SizeValueType
         IN IF t # TypeNil /\ ~Need(len, ko3, SizeValueOffset) THEN Iterated(TRUE, calls)
            ELSE
              LET valueOffset == LE(Slice0(data, ko3, ko3 + SizeValueOffset))
                  fvo == IF t # TypeNil /\ firstValueOffset = 0
                           THEN valueOffset ELSE firstValueOffset
                  dv == IF t # TypeNil /\ includeValue
                          THEN decodeValue(data, len, valueOffset, t)
                          ELSE Dec(FALSE, NilV)
                  db == IF t # TypeNil /\ includeBytes
                          THEN valueBytes(data, len, valueOffset, t)
                          ELSE Dec(FALSE, NilBytes)
                  ko4 == IF t # TypeNil THEN ko3 + SizeValueOffset ELSE ko3
                  calls1 == Append(calls, Call(key, dv.val, db.val))
              IN IF t # TypeNil /\ (valueOffset > len \/ dv.fault \/ db.fault)
                   THEN Iterated(TRUE, calls)
                 ELSE IF Len(calls1) = stopAt THEN Iterated(FALSE, calls1)
                 ELSE IF fvo > 0 /\ ko4 >= fvo THEN Iterated(FALSE, calls1)
                 ELSE IterateLoop(data, len, includeValue, includeBytes, stopAt,
                                  ko4, fvo, calls1)

\* Iterate going on after the callback has returned false
IterateIgnoringStop(data, len, includeValue, includeBytes, stopAt) ==
  IF len = 0 THEN Iterated(FALSE, <<>>)
  ELSE IterateLoop(data, len, includeValue, includeBytes, 0, 0, 0, <<>>)

Iterate(data, len, includeValue, includeBytes, stopAt) ==
  IF len = 0 THEN Iterated(FALSE, <<>>)
  ELSE IterateLoop(data, len, includeValue, includeBytes, stopAt, 0, 0, <<>>)

\* IterateValues with a callback that always returns true
IterateValues(data, len) == Iterate(data, len, TRUE, FALSE, 0)

\* result[key] = value
MapPut(f, k, v) == [x \in (DOMAIN f) \cup {k} |-> IF x = k THEN v ELSE f[x]]

RECURSIVE MapOfCalls(_, _)
MapOfCalls(calls, f) ==
  IF calls = <<>> THEN f
  ELSE MapOfCalls(Tail(calls), MapPut(f, Head(calls).key, Head(calls).value))

\* AsMap: the map, and whether the iteration panicked
AsMap(data, len) ==
  LET it == IterateValues(data, len)
  IN [fault |-> it.fault, map |-> MapOfCalls(it.calls, <<>>)]

(***************************************************************************)
(* Slice / Split.                                                          *)
(***************************************************************************)
\* bm.lengthOf(valueOffset, t) on the slice (data, len)
lengthOf(data, len, valueOffset, t) ==
  CASE t \in {TypeBool, TypeByte, TypeInt8}                 -> Dec(FALSE, 1)
    [] t \in {TypeUInt16, TypeInt16}                        -> Dec(FALSE, 2)
    [] t \in {TypeUInt32, TypeInt32, TypeFloat32}           -> Dec(FALSE, 4)
    [] t \in {TypeUInt64, TypeInt64, TypeUInt, TypeInt, TypeFloat64, TypeTime}
                                                            -> Dec(FALSE, 8)
    [] t = TypeString ->
         IF valueOffset > len \/ ~Need(len, valueOffset, 2) THEN Dec(TRUE, 0)
         ELSE Dec(FALSE, LE(Slice0(data, valueOffset, valueOffset + 2)) + 2)
    [] OTHER                                                -> Dec(FALSE, 0)

\* the requested keys still to be matched: keyBytes, which is nil once the
\* last one has been consumed
KeyBytes(isNil, s) == [nil |-> isNil, s |-> s]

Advanced(fault, matched, keyBytes) ==
  [fault |-> fault, matched |-> matched, keyBytes |-> keyBytes]

\* the inner loop of advance: consume the keys the candidate is past
RECURSIVE advanceLoop(_, _)
advanceLoop(keyBytes, candidate) ==
  LET keyComparison == Compare(candidate, keyBytes[1])
  IN IF keyComparison <= 0 THEN Advanced(FALSE, keyComparison = 0, KeyBytes(FALSE, keyBytes))
     ELSE IF Len(keyBytes) > 1 THEN advanceLoop(Tail(keyBytes), candidate)
     ELSE Advanced(FALSE, FALSE, KeyBytes(TRUE, <<>>))

\* advance leaving the last requested key in keyBytes when the candidate is
\* past it
advanceKeepsLastKey(keyBytes, candidate) ==
  IF keyBytes.nil THEN Advanced(FALSE, FALSE, keyBytes)
  ELSE IF keyBytes.s = <<>> THEN Advanced(TRUE, FALSE, keyBytes)
  ELSE LET adv == advanceLoop(keyBytes.s, candidate)
       IN IF adv.keyBytes.nil
            THEN Advanced(FALSE, FALSE,
                          KeyBytes(FALSE, <<keyBytes.s[Len(keyBytes.s)]>>))
            ELSE adv

advance(keyBytes, candidate) ==
  IF keyBytes.nil THEN Advanced(FALSE, FALSE, keyBytes)
  ELSE IF keyBytes.s = <<>> THEN Advanced(TRUE, FALSE, keyBytes)
  ELSE advanceLoop(keyBytes.s, candidate)

\* the entries kept for one output: header slices, value offsets relative to
\* the new value region, value slices, and the two lengths
NoKept == [keys |-> <<>>, valueOffsets |-> <<>>, values |-> <<>>,
           keysLen |-> 0, valuesLen |-> 0]

\* Keep recording the value offset after adding the value's length
KeepOffsetAfter(acc, header, value) ==
  [keys |-> Append(acc.keys, header),
   valueOffsets |-> Append(acc.valueOffsets, acc.valuesLen + Len(value)),
   values |-> Append(acc.values, value),
   keysLen |-> acc.keysLen + Len(header) + SizeValueOffset,
   valuesLen |-> acc.valuesLen + Len(value)]

Keep(acc, header, value) ==
  [keys |-> Append(acc.keys, header),
   valueOffsets |-> Append(acc.valueOffsets, acc.valuesLen),
   values |-> Append(acc.values, value),
   keysLen |-> acc.keysLen + Len(header) + SizeValueOffset,
   valuesLen |-> acc.valuesLen + Len(value)]

Sliced(fault, out) == [fault |-> fault, out |-> out]

RECURSIVE putKeys(_, _, _, _, _)
putKeys(st, keysLen, keys, valueOffsets, i) ==
  IF st.fault \/ i > Len(keys) THEN st
  ELSE IF st.offset > Len(st.out) THEN [st EXCEPT !.fault = TRUE]
  ELSE
    LET o1 == Copy(st.out, st.offset, keys[i])
        off1 == st.offset + Len(keys[i])
    IN IF valueOffsets[i] >= 0
         THEN IF off1 > Len(o1) \/ ~Need(Len(o1), off1, SizeValueOffset)
                THEN [st EXCEPT !.fault = TRUE]
                ELSE putKeys([out |-> Copy(o1, off1, PutLE(4, valueOffsets[i] + keysLen)),
                              offset |-> off1 + SizeValueOffset, fault |-> FALSE],
                             keysLen, keys, valueOffsets, i + 1)
         ELSE putKeys([out |-> o1, offset |-> off1, fault |-> FALSE],
                      keysLen, keys, valueOffsets, i + 1)

RECURSIVE putValues(_, _, _)
putValues(st, values, i) ==
  IF st.fault \/ i > Len(values) THEN st
  ELSE IF st.offset > Len(st.out) THEN [st EXCEPT !.fault = TRUE]
  ELSE putValues([out |-> Copy(st.out, st.offset, values[i]),
                  offset |-> st.offset + Len(values[i]), fault |-> FALSE],
                 values, i + 1)

buildFromSliced(keysLen, valuesLen, keys, valueOffsets, values) ==
  LET st0 == [out |-> Zeros(keysLen + valuesLen), offset |-> 0, fault |-> FALSE]
      st1 == putKeys(st0, keysLen, keys, valueOffsets, 1)
      st2 == putValues(st1, values, 1)
  IN Sliced(st2.fault, st2.out)

\* the state of the scan of doSplit; seen is the sequence of entry keys the
\* scan has examined
Scan(fault, keyBytes, matched, omitted, seen) ==
  [fault |-> fault, keyBytes |-> keyBytes, matched |-> matched,
   omitted |-> omitted, seen |-> seen]

RECURSIVE doSplitLoop(_, _, _, _, _, _)
doSplitLoop(data, len, includeOmitted, keyOffset, firstValueOffset, sc) ==
  IF keyOffset >= len THEN sc
  ELSE IF ~Need(len, keyOffset, SizeKeyLen) THEN [sc EXCEPT !.fault = TRUE]
  ELSE
    LET keyStart == keyOffset
        keyLen == LE(Slice0(data, keyOffset, keyOffset + SizeKeyLen))
        ko1 == keyOffset + SizeKeyLen
        ko2 == ko1 + keyLen
    IN IF ko2 > Len(data) THEN [sc EXCEPT !.fault = TRUE]
       ELSE
         LET candidate == Slice0(data, ko1, ko2)
             adv == advance(sc.keyBytes, candidate)
             seen1 == Append(sc.seen, candidate)
         IN IF adv.fault \/ ko2 >= len THEN [sc EXCEPT !.fault = TRUE, !.seen = seen1]
            ELSE
              LET t == data[ko2 + 1]
                  ko3 == ko2 + SizeValueType
              IN IF t # TypeNil
                   THEN
                     IF ~Need(len, ko3, SizeValueOffset)
                       THEN [sc EXCEPT !.fault = TRUE, !.seen = seen1]
                     ELSE
                       LET valueOffset == LE(Slice0(data, ko3, ko3 + SizeValueOffset))
                           fvo == IF firstValueOffset = 0 THEN valueOffset
                                                          ELSE firstValueOffset
                           vl == lengthOf(data, len, valueOffset, t)
                           ko4 == ko3 + SizeValueOffset
                       IN IF vl.fault \/ valueOffset + vl.val > Len(data)
                            THEN [sc EXCEPT !.fault = TRUE, !.seen = seen1]
                          ELSE
                            LET value == Slice0(data, valueOffset, valueOffset + vl.val)
                                header == Slice0(data, keyStart, ko3)
                                sc1 == Scan(FALSE, adv.keyBytes,
                                            IF adv.matched
                                              THEN Keep(sc.matched, header, value)
                                              ELSE sc.matched,
                                            IF ~adv.matched /\ includeOmitted
                                              THEN Keep(sc.omitted, header, value)
                                              ELSE sc.omitted,
                                            seen1)
                            IN IF ko4 >= fvo THEN sc1
                               ELSE IF ~includeOmitted /\ Len(adv.keyBytes.s) = 0 THEN sc1
                               ELSE doSplitLoop(data, len, includeOmitted, ko4, fvo, sc1)
                   ELSE
                     LET sc1 == Scan(FALSE, adv.keyBytes, sc.matched, sc.omitted, seen1)
                     IN IF ko3 >= firstValueOffset THEN sc1
                        ELSE IF ~includeOmitted /\ Len(adv.keyBytes.s) = 0 THEN sc1
                        ELSE doSplitLoop(data, len, includeOmitted, ko3,
                                         firstValueOffset, sc1)

\* doSplit without the sort of the requested keys
doSplitUnsorted(data, len, includeOmitted, keys) ==
  LET sorted == keys
      sc == doSplitLoop(data, len, includeOmitted, 0, 0,
                        Scan(FALSE, KeyBytes(FALSE, sorted), NoKept, NoKept, <<>>))
      inc == buildFromSliced(sc.matched.keysLen, sc.matched.valuesLen,
                             sc.matched.keys, sc.matched.valueOffsets, sc.matched.values)
      om == IF includeOmitted
              THEN buildFromSliced(sc.omitted.keysLen, sc.omitted.valuesLen,
                                   sc.omitted.keys, sc.omitted.valueOffsets,
                                   sc.omitted.values)
              ELSE Sliced(FALSE, <<>>)
  IN IF sc.fault \/ inc.fault \/ om.fault
       THEN [fault |-> TRUE, included |-> <<>>, omitted |-> <<>>,
             keys |-> sorted, seen |-> sc.seen,
             src |-> data, shares |-> {}]
       ELSE [fault |-> FALSE, included |-> inc.out, omitted |-> om.out,
             keys |-> sorted, seen |-> sc.seen,
             src |-> data, shares |-> {}]

\* doSplit handing the source buffer itself back when every entry of it is
\* matched, instead of the copy
doSplitReturnsSource(data, len, includeOmitted, keys) ==
  LET sorted == SortStrings(keys)
      sc == doSplitLoop(data, len, includeOmitted, 0, 0,
                        Scan(FALSE, KeyBytes(FALSE, sorted), NoKept, NoKept, <<>>))
      inc == buildFromSliced(sc.matched.keysLen, sc.matched.valuesLen,
                             sc.matched.keys, sc.matched.valueOffsets, sc.matched.values)
      om == IF includeOmitted
              THEN buildFromSliced(sc.omitted.keysLen, sc.omitted.valuesLen,
                                   sc.omitted.keys, sc.omitted.valueOffsets,
                                   sc.omitted.values)
              ELSE Sliced(FALSE, <<>>)
  IN IF sc.fault \/ inc.fault \/ om.fault
       THEN [fault |-> TRUE, included |-> <<>>, omitted |-> <<>>,
             keys |-> sorted, seen |-> sc.seen,
             src |-> data, shares |-> {}]
       ELSE [fault |-> FALSE, included |-> inc.out, omitted |-> om.out,
             keys |-> sorted, seen |-> sc.seen,
             src |-> data,
             shares |-> IF inc.out = SubSeq(data, 1, len) /\ len > 0
                          THEN {"included"} ELSE {}]

\* doSplit: the two buffers, the caller's keys slice as sort.Strings leaves
\* it, the entry keys examined, the source buffer as the call leaves it (it
\* is only read), and which of the returned buffers share storage with the
\* source (none: both come out of make in buildFromSliced, or are nil)
doSplit(data, len, includeOmitted, keys) ==
  LET sorted == SortStrings(keys)
      sc == doSplitLoop(data, len, includeOmitted, 0, 0,
                        Scan(FALSE, KeyBytes(FALSE, sorted), NoKept, NoKept, <<>>))
      inc == buildFromSliced(sc.matched.keysLen, sc.matched.valuesLen,
                             sc.matched.keys, sc.matched.valueOffsets, sc.matched.values)
      om == IF includeOmitted
              THEN buildFromSliced(sc.omitted.keysLen, sc.omitted.valuesLen,
                                   sc.omitted.keys, sc.omitted.valueOffsets,
                                   sc.omitted.values)
              ELSE Sliced(FALSE, <<>>)
  IN IF sc.fault \/ inc.fault \/ om.fault
       THEN [fault |-> TRUE, included |-> <<>>, omitted |-> <<>>,
             keys |-> sorted, seen |-> sc.seen,
             src |-> data, shares |-> {}]
       ELSE [fault |-> FALSE, included |-> inc.out, omitted |-> om.out,
             keys |-> sorted, seen |-> sc.seen,
             src |-> data, shares |-> {}]

(***************************************************************************)
(* Slice as src/bytemap.go has it (the revision before Split): a requested *)
(* key the scan passes without finding it is kept as a Nil-tagged entry.   *)
(***************************************************************************)
\* a 4-byte offset read; a value of 2^31 or more stands as 2^31 - 1, which
\* like it lies beyond every buffer of the model
Offset32(s) == IF s[4] >= 128 THEN 2147483647 ELSE LE(s)

\* the entry advance makes up for a requested key that is not represented
placeholder(key) == PutLE(2, Len(key)) \o key \o <<TypeNil>>

KeepNil(acc, header) ==
  [keys |-> Append(acc.keys, header),
   valueOffsets |-> Append(acc.valueOffsets, -1),
   values |-> acc.values,
   keysLen |-> acc.keysLen + Len(header),
   valuesLen |-> acc.valuesLen]

\* the state of the scan: keyBytes, the matched flag (which advance leaves
\* as it was when it runs out of keys), and the entries kept
ScanRev1(fault, keyBytes, matched, kept, seen) ==
  [fault |-> fault, keyBytes |-> keyBytes, matched |-> matched,
   kept |-> kept, seen |-> seen]

RECURSIVE advanceRev1(_, _)
advanceRev1(sc, candidate) ==
  IF sc.keyBytes.nil \/ sc.keyBytes.s = <<>> THEN [sc EXCEPT !.fault = TRUE]
  ELSE
    LET key == sc.keyBytes.s[1]
        keyComparison == Compare(candidate, key)
        rest == IF Len(sc.keyBytes.s) > 1 THEN KeyBytes(FALSE, Tail(sc.keyBytes.s))
                                          ELSE KeyBytes(TRUE, <<>>)
    IN IF keyComparison > 0
         THEN LET sc1 == [sc EXCEPT !.kept = KeepNil(sc.kept, placeholder(key)),
                                    !.keyBytes = rest]
              IN IF rest.nil THEN sc1 ELSE advanceRev1(sc1, candidate)
         ELSE IF keyComparison = 0
           THEN [sc EXCEPT !.matched = TRUE, !.keyBytes = rest]
           ELSE [sc EXCEPT !.matched = FALSE]

RECURSIVE sliceLoopRev1(_, _, _, _, _)
sliceLoopRev1(data, len, keyOffset, firstValueOffset, sc) ==
  IF keyOffset >= len THEN sc
  ELSE IF ~Need(len, keyOffset, SizeKeyLen) THEN [sc EXCEPT !.fault = TRUE]
  ELSE
    LET keyStart == keyOffset
        keyLen == LE(Slice0(data, keyOffset, keyOffset + SizeKeyLen))
        ko1 == keyOffset + SizeKeyLen
        ko2 == ko1 + keyLen
    IN IF ko2 > Len(data) THEN [sc EXCEPT !.fault = TRUE]
       ELSE
         LET candidate == Slice0(data, ko1, ko2)
             adv0 == advanceRev1(sc, candidate)
             adv == [adv0 EXCEPT !.seen = Append(sc.seen, candidate)]
         IN IF adv.fault \/ ko2 >= len THEN [adv EXCEPT !.fault = TRUE]
            ELSE
              LET t == data[ko2 + 1]
                  ko3 == ko2 + SizeValueType
                  header == Slice0(data, keyStart, ko3)
                  ko4 == IF t # TypeNil THEN ko3 + SizeValueOffset ELSE ko3
                  valueOffset == Offset32(Slice0(data, ko3, ko3 + SizeValueOffset))
                  vl == lengthOf(data, len, valueOffset, t)
                  keepFault ==
                    /\ adv.matched
                    /\ t # TypeNil
                    /\ \/ ~Need(len, ko3, SizeValueOffset)
                       \/ valueOffset > Len(data)
                       \/ vl.fault
                       \/ valueOffset + vl.val > Len(data)
                  sc1 == IF ~adv.matched THEN adv
                         ELSE IF t = TypeNil
                           THEN [adv EXCEPT !.kept = KeepNil(adv.kept, header)]
                           ELSE [adv EXCEPT !.kept =
                                   Keep(adv.kept, header,
                                        Slice0(data, valueOffset, valueOffset + vl.val))]
              IN IF keepFault THEN [adv EXCEPT !.fault = TRUE]
                 ELSE IF sc1.keyBytes.nil THEN sc1
                 ELSE IF t # TypeNil /\ firstValueOffset = 0 /\ (ko4 > len \/ ~Need(len, ko4, SizeValueOffset))
                   THEN [sc1 EXCEPT !.fault = TRUE]
                 ELSE
                   LET fvo == IF t # TypeNil /\ firstValueOffset = 0
                                THEN Offset32(Slice0(data, ko4, ko4 + SizeValueOffset))
                                ELSE firstValueOffset
                   IN IF ko4 >= fvo THEN sc1
                      ELSE IF Len(sc1.keyBytes.s) = 0 THEN sc1
                      ELSE sliceLoopRev1(data, len, ko4, fvo, sc1)

SliceRev1(data, len, keys) ==
  LET sorted == SortStrings(keys)
      sc == sliceLoopRev1(data, len, 0, 0,
                          ScanRev1(FALSE, KeyBytes(FALSE, sorted), FALSE, NoKept, <<>>))
      out == buildFromSliced(sc.kept.keysLen, sc.kept.valuesLen, sc.kept.keys,
                             sc.kept.valueOffsets, sc.kept.values)
  IN IF sc.fault \/ out.fault
       THEN [fault |-> TRUE, included |-> <<>>, omitted |-> <<>>,
             keys |-> sorted, seen |-> sc.seen,
             src |-> data, shares |-> {}]
       ELSE [fault |-> FALSE, included |-> out.out, omitted |-> <<>>,
             keys |-> sorted, seen |-> sc.seen,
             src |-> data, shares |-> {}]

\* Slice keeping the earlier revision's placeholders
SliceWithPlaceholders(data, len, keys) == SliceRev1(data, len, keys)

Slice(data, len, keys) == doSplit(data, len, FALSE, keys)

Split(data, len, keys) == doSplit(data, len, TRUE, keys)

(***************************************************************************)
(* The inputs: maps of at most MaxKeys keys drawn from KeySet, with values *)
(* drawn from AllVals (at most one of them outside CoreVals), and lists of *)
(* at most MaxReq requested keys drawn from ProbeKeys: the keys a map can  *)
(* store and one that is never stored and sorts between them.              *)
(***************************************************************************)
KeySet == { <<>>, <<98>>, <<98, 97>> }

ProbeKeys == KeySet \cup { <<97>> }

CoreVals == { NilV, BoolV(TRUE), StringV(<<104, 105>>) }

AllVals ==
  CoreVals \cup
  { BoolV(FALSE), IntV("byte", 255), IntV("uint16", 65535), IntV("uint32", 70000),
    IntV("uint64", 5), IntV("uint", 6), IntV("int8", -128), IntV("int16", -2),
    IntV("int32", -70000), IntV("int64", -1), IntV("int", 7),
    FloatV("float32", [s |-> 1, e |-> 128, f |-> 65537]),
    FloatV("float64", [s |-> 0, e |-> 1023, f |-> 258]),
    StringV(<<>>), TimeV(-1), TimeV(1500000000), OtherV }

Maps ==
  { f \in UNION { [S -> AllVals] : S \in { T \in SUBSET KeySet : Cardinality(T) <= MaxKeys } } :
      Cardinality({ k \in DOMAIN f : f[k] \notin CoreVals }) <= 1 }

\* the orders a range loop over a map with key set S can take
Orders(S) ==
  { o \in [1..Cardinality(S) -> S] : \A k \in S : \E i \in DOMAIN o : o[i] = k }

KeyLists == UNION { [1..n -> ProbeKeys] : n \in 0..MaxReq }

Elems(s) == { s[i] : i \in DOMAIN s }

(***************************************************************************)
(* State: the source map m, the buffer bm = New(m), and the last           *)
(* operation applied to bm with its argument and its result.               *)
(***************************************************************************)
VARIABLES m, bm, op, arg, res

vars == <<m, bm, op, arg, res>>

Init ==
  \E mm \in Maps :
    \E order \in Orders(DOMAIN mm) :
      /\ m = mm
      /\ bm = New(mm, order).bm
      /\ op = "init"
      /\ arg = <<>>
      /\ res = New(mm, order).fault   \* whether Build panicked

\* one call on the freshly built buffer; the buffer is immutable, so a call
\* after another call returns what it returns on the fresh buffer
Do(name, a, r) ==
  /\ op = "init"
  /\ res = FALSE
  /\ op' = name
  /\ arg' = a
  /\ res' = r
  /\ UNCHANGED <<m, bm>>

\* the values mm pairs with the keys of the sequence keys
ValuesIn(mm, keys) == [i \in 1..Len(keys) |-> mm[keys[i]]]

\* New(m) again, the range loop taking the order `order`
DoNew == \E order \in Orders(DOMAIN m) : Do("New", order, New(m, order))

\* FromSortedKeysAndValues on the keys of m in ascending order
DoFromSorted ==
  LET keys == SortStrings(CHOOSE o \in Orders(DOMAIN m) : TRUE)
  IN Do("FromSorted", keys,
        FromSortedKeysAndValues(keys, [i \in 1..Len(keys) |-> m[keys[i]]]))

DoGet == \E k \in ProbeKeys : Do("Get", k, Get(bm, Len(bm), k))

DoGetBytes == \E k \in ProbeKeys : Do("GetBytes", k, GetBytes(bm, Len(bm), k))

DoAsMap == Do("AsMap", <<>>, AsMap(bm, Len(bm)))

\* one call of Slice or Split on the freshly built buffer with the caller's
\* key list a: the buffer is left as the call leaves it
DoProject(name, a, r) ==
  /\ op = "init"
  /\ res = FALSE
  /\ op' = name
  /\ arg' = a
  /\ res' = r
  /\ bm' = r.src
  /\ UNCHANGED m

DoSlice == \E keys \in KeyLists : DoProject("Slice", keys, Slice(bm, Len(bm), keys))

DoSplit == \E keys \in KeyLists : DoProject("Split", keys, Split(bm, Len(bm), keys))

\* Slice of the src/bytemap.go revision, whose New lays the same bytes out
DoSliceRev1 ==
  \E keys \in KeyLists : DoProject("SliceRev1", keys, SliceRev1(bm, Len(bm), keys))

\* Iterate with a callback that returns false at its call number stopAt
\* (never, when stopAt is 0 or beyond the number of entries)
DoIterate ==
  \E includeValue \in BOOLEAN, includeBytes \in BOOLEAN, stopAt \in 0..(MaxKeys + 1) :
    Do("Iterate", <<includeValue, includeBytes, stopAt>>,
       Iterate(bm, Len(bm), includeValue, includeBytes, stopAt))

\* FromSortedKeysAndValues on the keys of m in an order that is not
\* ascending, each with its value
DoFromUnsorted ==
  \E order \in Orders(DOMAIN m) :
    /\ ~IsSorted(order)
    /\ Do("FromUnsorted", order, FromSortedKeysAndValues(order, ValuesIn(m, order)))

\* Get and GetBytes on the truncated buffer bm[:i], for a key that is not
\* stored
DoGetTruncated ==
  \E i \in 1..(Len(bm) - 1) : \E k \in ProbeKeys \ DOMAIN m :
    Do("GetTruncated", <<i, k>>, Get(bm, i, k))

DoGetBytesTruncated ==
  \E i \in 1..(Len(bm) - 1) : \E k \in ProbeKeys \ DOMAIN m :
    Do("GetBytesTruncated", <<i, k>>, GetBytes(bm, i, k))

Next ==
  \/ DoNew
  \/ DoFromSorted
  \/ DoGet
  \/ DoGetBytes
  \/ DoAsMap
  \/ DoSlice
  \/ DoSplit
  \/ DoSliceRev1
  \/ DoIterate
  \/ DoFromUnsorted
  \/ DoGetTruncated
  \/ DoGetBytesTruncated

Spec == Init /\ [][Next]_vars

(***************************************************************************)
(* Strings around the longest length the 2-byte length prefix can hold:    *)
(* maps of one key whose value is a string of a length in LongLens.        *)
(***************************************************************************)
MaxStringLen == 65535

LongLens == { MaxStringLen - 1, MaxStringLen, MaxStringLen + 1, MaxStringLen + 2 }

LongString(n) == StringV([i \in 1..n |-> 104])

InitLong ==
  \E k \in KeySet : \E n \in LongLens :
    /\ m = [x \in {k} |-> LongString(n)]
    /\ bm = New(m, <<k>>).bm
    /\ op = "init"
    /\ arg = <<>>
    /\ res = New(m, <<k>>).fault

NextLong ==
  \/ DoGet
  \/ DoGetBytes
  \/ DoAsMap

SpecLong == InitLong /\ [][NextLong]_vars

(***************************************************************************)
(* Properties.                                                             *)
(***************************************************************************)
\* every value of the map is of a supported type or nil
Supported(mm) == \A k \in DOMAIN mm : mm[k].kind # "other"

\* the keys of m in ascending order, and the values in that order
SortedKeysOf(mm) == SortStrings(CHOOSE o \in Orders(DOMAIN mm) : TRUE)

ValuesOf(mm, keys) == [i \in 1..Len(keys) |-> mm[keys[i]]]

\* C1: round trip.  AsMap(New(m)) has exactly the keys of m and gives every
\* key the value m gives it, nil values included, for every m whose values
\* are of supported types or nil.
C1_RoundTrip ==
  (op = "AsMap" /\ Supported(m)) =>
    /\ ~res.fault
    /\ DOMAIN res.map = DOMAIN m
    /\ \A k \in DOMAIN m : res.map[k] = m[k]

C1_Witness ==
  /\ op = "AsMap"
  /\ Supported(m)
  /\ Cardinality(DOMAIN m) = 2
  /\ \E k \in DOMAIN m : m[k] = NilV
  /\ \E k \in DOMAIN m : m[k] = IntV("int16", -2)
  /\ res.map = m

\* C2: point lookup agreement.  Get(New(m), k) is m[k] for a key of m and
\* nil for a key that is not one, and never panics.
C2_PointLookup ==
  (op = "Get" /\ Supported(m)) =>
    res = Got(FALSE, FALSE, IF arg \in DOMAIN m THEN m[arg] ELSE NilV)

C2_Witness ==
  /\ op = "Get"
  /\ Supported(m)
  /\ Cardinality(DOMAIN m) = 2
  /\ arg \in DOMAIN m
  /\ arg = SortedKeysOf(m)[2]
  /\ m[arg] = TimeV(-1)
  /\ res.val = m[arg]

\* C6: bytes agreement.  GetBytes(New(m), k) is exactly the bytes
\* encodeValue writes for m[k] (a string with its 2-byte length prefix);
\* decoding them with the tag of k gives Get(New(m), k); it is the nil slice
\* when the value is nil or the key is not stored.
C6_BytesAgreement ==
  (op = "GetBytes" /\ Supported(m)) =>
    /\ ~res.fault
    /\ IF arg \in DOMAIN m /\ m[arg] # NilV
         THEN /\ res.val = BytesOf(encodedBytes(m[arg]))
              /\ decodeValue(res.val.b, Len(res.val.b), 0, encodeValue(m[arg]).t)
                   = Dec(FALSE, Get(bm, Len(bm), arg).val)
         ELSE res.val = NilBytes

C6_Witness ==
  /\ op = "GetBytes"
  /\ arg \in DOMAIN m
  /\ m[arg] = StringV(<<104, 105>>)
  /\ res.val = BytesOf(<<2, 0, 104, 105>>)
  /\ Cardinality(DOMAIN m) = 2

\* C7: unsorted builder equivalence.  FromSortedKeysAndValues on the keys of
\* m in ascending order is byte for byte New(m), whatever order the range
\* loop of New takes.
C7_BuilderEquivalence ==
  /\ op = "FromSorted" => res = [fault |-> FALSE, bm |-> bm]
  /\ op = "New" =>
       res = FromSortedKeysAndValues(SortedKeysOf(m), ValuesOf(m, SortedKeysOf(m)))

C7_Witness ==
  /\ op = "New"
  /\ Len(arg) = 2
  /\ ~IsSorted(arg)
  /\ ~res.fault
  /\ res.bm = bm
  /\ Len(bm) > 0

\* the keys Iterate visits on a buffer, in order
IterKeys(buf) ==
  LET it == Iterate(buf, Len(buf), FALSE, FALSE, 0)
  IN [i \in 1..Len(it.calls) |-> it.calls[i].key]

\* C3: split completeness.  For (matched, omitted) = Split(New(m), S) the
\* key sets of the two decoded buffers are disjoint, their union is the key
\* set of m, every key has the value m gives it, and matched holds exactly
\* the keys of m that are in S.  (Stated for a non-empty S.)
C3_SplitCompleteness ==
  (op = "Split" /\ Supported(m) /\ arg # <<>>) =>
    /\ ~res.fault
    /\ LET a == AsMap(res.included, Len(res.included))
           b == AsMap(res.omitted, Len(res.omitted))
       IN /\ ~a.fault
          /\ ~b.fault
          /\ (DOMAIN a.map) \cap (DOMAIN b.map) = {}
          /\ (DOMAIN a.map) \cup (DOMAIN b.map) = DOMAIN m
          /\ DOMAIN a.map = (DOMAIN m) \cap Elems(arg)
          /\ \A k \in DOMAIN a.map : a.map[k] = m[k]
          /\ \A k \in DOMAIN b.map : b.map[k] = m[k]

\* C4: slice agreement.  For a non-empty list K, Slice(New(m), K) decodes
\* to m restricted to the keys of m that occur in K, and Get on the slice
\* returns m[k] for every requested key of m.
C4_SliceAgreement ==
  (op = "Slice" /\ Supported(m) /\ arg # <<>>) =>
    /\ ~res.fault
    /\ LET a == AsMap(res.included, Len(res.included))
           S == (DOMAIN m) \cap Elems(arg)
       IN /\ ~a.fault
          /\ DOMAIN a.map = S
          /\ \A k \in S : a.map[k] = m[k]
          /\ \A k \in S : Get(res.included, Len(res.included), k) = Got(FALSE, FALSE, m[k])

\* the valueOffset field of the first entry of a buffer that starts with a
\* non-nil entry
FirstValueOffsetOf(buf) ==
  LET keyLen == LE(Slice0(buf, 0, SizeKeyLen))
      at == SizeKeyLen + keyLen + SizeValueType
  IN LE(Slice0(buf, at, at + SizeValueOffset))

\* out is a valid encoded map projected from src: Iterate reads it without
\* a panic, its keys ascend strictly, it is laid out as the Builder lays
\* out its entries (so its first valueOffset is its header length), and
\* every entry has exactly the value bytes it has in src
ValidProjection(out, src) ==
  LET it == Iterate(out, Len(out), TRUE, TRUE, 0)
      n == Len(it.calls)
      pairs == [i \in 1..n |-> Pair(it.calls[i].key, it.calls[i].value)]
  IN /\ ~it.fault
     /\ \A i \in 1..(n - 1) : Compare(it.calls[i].key, it.calls[i + 1].key) < 0
     /\ \A i \in 1..n :
          /\ it.calls[i].bytes = GetBytes(src, Len(src), it.calls[i].key).val
          /\ Get(out, Len(out), it.calls[i].key) =
               Got(FALSE, FALSE, Get(src, Len(src), it.calls[i].key).val)
     /\ (n = 0) = (Len(out) = 0)
     /\ n > 0 => /\ it.calls[1].bytes # NilBytes
                 /\ FirstValueOffsetOf(out) = SumKeysLen(pairs)
     /\ Build(pairs, <<>>, TRUE) = [fault |-> FALSE, bm |-> out]

\* C5: closure under projection.  Every buffer Slice or Split returns for a
\* Builder-produced buffer is a valid encoded map: ascending keys, first
\* valueOffset equal to its header length, every rewritten valueOffset at
\* the start of the value bytes the entry had in the source.
C5_ClosedUnderProjection ==
  (op \in {"Slice", "Split"} /\ ~res.fault) =>
    /\ ValidProjection(res.included, bm)
    /\ ValidProjection(res.omitted, bm)

C5_Witness ==
  /\ op = "Split"
  /\ ~res.fault
  /\ Len(IterKeys(res.included)) = 1
  /\ Len(IterKeys(res.omitted)) = 1
  /\ Get(res.omitted, Len(res.omitted), IterKeys(res.omitted)[1]).val
       = StringV(<<104, 105>>)
  /\ Len(bm) # Len(res.omitted)

\* C8: truncated buffers are read safely.  On a proper non-empty prefix
\* bm[:i], Get and GetBytes for a key that is not stored read nothing at or
\* beyond the end of the prefix and return nil.
C8_TruncatedReadSafe ==
  (op \in {"GetTruncated", "GetBytesTruncated"} /\ arg[2] \notin DOMAIN m) =>
    /\ ~res.fault
    /\ ~res.past
    /\ res.val = (IF op = "GetTruncated" THEN NilV ELSE NilBytes)

\* C10: a requested key that is not stored in the source produces no entry
\* in the matched output of Slice/Split, not even a Nil-tagged placeholder.
C10_NoPlaceholder ==
  (op \in {"Slice", "Split"} /\ ~res.fault) =>
    /\ ~Iterate(res.included, Len(res.included), FALSE, FALSE, 0).fault
    /\ \A k \in Elems(arg) \ DOMAIN m : k \notin Elems(IterKeys(res.included))

C10_Witness ==
  /\ op = "Slice"
  /\ ~res.fault
  /\ Len(arg) = 2
  /\ arg[1] \in DOMAIN m
  /\ arg[2] \notin DOMAIN m
  /\ IterKeys(res.included) = <<arg[1]>>
  /\ Compare(arg[2], arg[1]) < 0

\* C11: Slice of src/bytemap.go, as its doc comment states.  The result
\* decodes to exactly the requested keys: a requested key of m with the
\* value m gives it, a requested key that is not in m (wherever it sorts)
\* with a nil value, and no key that was not requested.  (Stated for a
\* non-empty m and a non-empty key list.)
C11_SliceRev1Doc ==
  (op = "SliceRev1" /\ Supported(m) /\ DOMAIN m # {} /\ arg # <<>>) =>
    /\ ~res.fault
    /\ LET a == AsMap(res.included, Len(res.included))
       IN /\ ~a.fault
          /\ DOMAIN a.map = Elems(arg)
          /\ \A k \in Elems(arg) :
               a.map[k] = (IF k \in DOMAIN m THEN m[k] ELSE NilV)

\* the call Iterate is to make for key k of m
ExpectedCall(k, includeValue, includeBytes) ==
  Call(k,
       IF includeValue THEN m[k] ELSE NilV,
       IF includeBytes /\ m[k] # NilV THEN BytesOf(encodedBytes(m[k])) ELSE NilBytes)

\* C12: Iterate calls the callback once for every entry, in ascending key
\* order, with the value and the raw bytes as requested (nil bytes for a
\* nil value); when the callback returns false at its call number stopAt,
\* that call is the last one.
C12_IterateVisits ==
  (op = "Iterate" /\ Supported(m)) =>
    LET keys == SortedKeysOf(m)
        n == IF arg[3] = 0 \/ arg[3] > Len(keys) THEN Len(keys) ELSE arg[3]
    IN /\ ~res.fault
       /\ res.calls = [i \in 1..n |-> ExpectedCall(keys[i], arg[1], arg[2])]

C12_Witness ==
  /\ op = "Iterate"
  /\ Supported(m)
  /\ Cardinality(DOMAIN m) = 2
  /\ arg = <<TRUE, TRUE, 1>>
  /\ Len(res.calls) = 1
  /\ res.calls[1].value = StringV(<<104, 105>>)
  /\ res.calls[1].bytes = BytesOf(<<2, 0, 104, 105>>)

\* C13: empty map.  New of an empty map is a zero-length buffer; on it Get
\* returns nil for every key, Iterate makes no call, AsMap is the empty
\* map, Slice with a non-empty key list decodes to the empty map, and none
\* of them panics.
C13_EmptyMap ==
  DOMAIN m = {} =>
    /\ bm = <<>>
    /\ op = "init" => res = FALSE
    /\ op = "Get" => res = Got(FALSE, FALSE, NilV)
    /\ op = "Iterate" => res = Iterated(FALSE, <<>>)
    /\ op = "AsMap" => (~res.fault /\ DOMAIN res.map = {})
    /\ (op = "Slice" /\ arg # <<>>) =>
         /\ ~res.fault
         /\ AsMap(res.included, Len(res.included)) = [fault |-> FALSE, map |-> <<>>]

C13_Witness ==
  /\ DOMAIN m = {}
  /\ op = "Slice"
  /\ Len(arg) = 2
  /\ ~res.fault
  /\ Len(res.included) = 0
  /\ Get(bm, Len(bm), arg[1]).val = NilV

\* a value that is stored: neither nil nor of an unsupported type
HasValue(v) == v.kind \notin {"nil", "other"}

\* the header length H of the map mm whose keys are the sequence keys: per
\* entry 2 + keyLen + 1, and 4 more when the entry has a value
RECURSIVE HeaderLenOf(_, _)
HeaderLenOf(mm, keys) ==
  IF keys = <<>> THEN 0
  ELSE SizeKeyLen + Len(Head(keys)) + SizeValueType
         + (IF HasValue(mm[Head(keys)]) THEN SizeValueOffset ELSE 0)
         + HeaderLenOf(mm, Tail(keys))

\* the length of the value region of mm
RECURSIVE ValuesLenOf(_, _)
ValuesLenOf(mm, keys) ==
  IF keys = <<>> THEN 0
  ELSE (IF HasValue(mm[Head(keys)]) THEN Len(encodedBytes(mm[Head(keys)])) ELSE 0)
         + ValuesLenOf(mm, Tail(keys))

\* mm with nil in the place of every value of an unsupported type
NilForOther(mm) == [k \in DOMAIN mm |-> IF mm[k].kind = "other" THEN NilV ELSE mm[k]]

Valued(mm, keys) == { i \in 1..Len(keys) : HasValue(mm[keys[i]]) }

\* where the valueOffset field of entry i lies in the header
OffsetFieldAt(mm, keys, i) ==
  HeaderLenOf(mm, SubSeq(keys, 1, i - 1)) + SizeKeyLen + Len(keys[i]) + SizeValueType

\* C15: header/value boundary of Builder output.  The header length H is
\* the valueOffset of the first entry in layout order that has a value, and
\* the whole buffer length when no entry has one; so Iterate visits every
\* entry and nothing of the value region, and Get for a key that is not
\* stored ends with nil.
C15_HeaderValueBoundary ==
  LET keys == SortedKeysOf(m)
      H == HeaderLenOf(m, keys)
      valued == Valued(m, keys)
  IN /\ op = "init" => res = FALSE
     /\ Len(bm) = H + ValuesLenOf(m, keys)
     /\ valued = {} => Len(bm) = H
     /\ valued # {} =>
          LET i == CHOOSE x \in valued : \A y \in valued : x <= y
              at == OffsetFieldAt(m, keys, i)
          IN /\ bm[at] # TypeNil
             /\ LE(Slice0(bm, at, at + SizeValueOffset)) = H
     /\ (op = "Iterate" /\ arg[3] = 0) =>
          /\ ~res.fault
          /\ [i \in 1..Len(res.calls) |-> res.calls[i].key] = keys
     /\ (op = "Get" /\ arg \notin DOMAIN m) => res = Got(FALSE, FALSE, NilV)

C15_Witness ==
  /\ op = "Iterate"
  /\ arg = <<TRUE, FALSE, 0>>
  /\ Cardinality(DOMAIN m) = 2
  /\ m[SortedKeysOf(m)[1]] = NilV
  /\ HasValue(m[SortedKeysOf(m)[2]])
  /\ Len(res.calls) = 2
  /\ Len(bm) > HeaderLenOf(m, SortedKeysOf(m))

\* C16: the scan of Split stops where the Reader's scan stops.  Split with
\* a non-empty key list examines exactly the entries Iterate visits, also
\* when the first entries of the buffer have nil values.
C16_SplitScansAsIterate ==
  (op = "Split" /\ arg # <<>>) =>
    /\ ~res.fault
    /\ res.seen = IterKeys(bm)

\* C17: early stop of Slice.  No entry is examined after the first stored
\* entry whose key is greater than every requested key, and stopping there
\* loses nothing: the result is byte for byte the matched buffer of Split,
\* whose scan does not stop early, and it holds every requested key with a
\* value that the scan of Split comes to.
C17_SliceEarlyStop ==
  (op = "Slice" /\ arg # <<>>) =>
    /\ ~res.fault
    /\ \A i \in 1..(Len(res.seen) - 1) :
         \E k \in Elems(arg) : Compare(res.seen[i], k) <= 0
    /\ LET sp == Split(bm, Len(bm), arg)
       IN /\ res.included = sp.included
          /\ \A k \in Elems(arg) \cap Elems(sp.seen) :
               HasValue(m[k]) => k \in Elems(IterKeys(res.included))

C17_Witness ==
  /\ op = "Slice"
  /\ Cardinality(DOMAIN m) = 3
  /\ \A k \in DOMAIN m : HasValue(m[k])
  /\ Len(arg) = 1
  /\ arg[1] = SortedKeysOf(m)[1]
  /\ ~res.fault
  /\ res.seen = SubSeq(SortedKeysOf(m), 1, 2)
  /\ IterKeys(res.included) = arg

\* the elements of a key list in ascending order, each once
Canonical(keys) == SortStrings(CHOOSE o \in Orders(Elems(keys)) : TRUE)

\* C18: the result of Slice and of Split depends only on the set of the
\* requested keys.  A non-empty key list gives byte for byte the buffers
\* that the list of its elements in ascending order, each once, gives (so
\* two lists with the same elements give the same buffers), and no key
\* occurs twice in the matched buffer.
C18_DependsOnKeySet ==
  (op \in {"Slice", "Split"} /\ arg # <<>>) =>
    /\ LET r == doSplit(bm, Len(bm), op = "Split", Canonical(arg))
       IN /\ r.fault = res.fault
          /\ r.included = res.included
          /\ r.omitted = res.omitted
    /\ ~res.fault =>
         LET ks == IterKeys(res.included)
         IN \A i, j \in 1..Len(ks) : ks[i] = ks[j] => i = j

C18_Witness ==
  /\ op = "Split"
  /\ Len(arg) = 2
  /\ Compare(arg[1], arg[2]) > 0
  /\ arg[1] \in DOMAIN m
  /\ arg[2] \in DOMAIN m
  /\ ~res.fault
  /\ IterKeys(res.included) = <<arg[2], arg[1]>>
  /\ Len(IterKeys(res.omitted)) = 1

\* C19 as claimed: FromSortedKeysAndValues on unique keys that are not in
\* ascending order returns a buffer without error, and there are such an
\* input and a stored key k for which Get returns something other than the
\* value paired with k.
C19_UnsortedCorruptsGet ==
  /\ op = "FromUnsorted" => ~res.fault
  /\ \E mm \in Maps : \E order \in Orders(DOMAIN mm) :
       /\ ~IsSorted(order)
       /\ LET b == FromSortedKeysAndValues(order, ValuesIn(mm, order))
          IN \E k \in DOMAIN mm :
               Get(b.bm, Len(b.bm), k) # Got(FALSE, FALSE, NilForOther(mm)[k])

\* C19 amended: the buffer comes back without error, with the entries in
\* the order given; Get, a linear scan, still returns the value paired with
\* every stored key and nil for any other key; the operations that rely on
\* the order are the ones that go wrong: Iterate visits the keys in the
\* order given, not ascending.
C19_UnsortedBuilder ==
  op = "FromUnsorted" =>
    /\ ~res.fault
    /\ Len(res.bm) = Len(bm)
    /\ res.bm # bm
    /\ \A k \in ProbeKeys :
         Get(res.bm, Len(res.bm), k) =
           Got(FALSE, FALSE, IF k \in DOMAIN m THEN NilForOther(m)[k] ELSE NilV)
    /\ IterKeys(res.bm) = arg
    /\ ~IsSorted(IterKeys(res.bm))

\* an unsorted buffer on which Slice misses a stored, requested key that
\* Get finds
C19_Witness ==
  /\ op = "FromUnsorted"
  /\ ~res.fault
  /\ Cardinality(DOMAIN m) = 2
  /\ \E k \in DOMAIN m :
       /\ HasValue(m[k])
       /\ Get(res.bm, Len(res.bm), k).val = m[k]
       /\ LET sl == Slice(res.bm, Len(res.bm), <<k>>)
          IN ~sl.fault /\ k \notin Elems(IterKeys(sl.included))

\* C20: Slice and Split with an empty list of requested keys on a
\* non-empty buffer complete without a panic; Slice returns a zero-length
\* buffer, Split a zero-length matched buffer and an omitted buffer that
\* decodes to the whole map.
C20_EmptyKeyList ==
  (op \in {"Slice", "Split"} /\ arg = <<>> /\ bm # <<>> /\ Supported(m)) =>
    /\ ~res.fault
    /\ res.included = <<>>
    /\ op = "Split" =>
         AsMap(res.omitted, Len(res.omitted)) = [fault |-> FALSE, map |-> m]

\* how often key k occurs in the sequence s
Count(s, k) == Cardinality({ i \in 1..Len(s) : s[i] = k })

C9_LongStringRejected ==
  \A k \in DOMAIN m :
    (m[k].kind = "string" /\ Len(m[k].v) > MaxStringLen) =>
      /\ op = "init" => res = TRUE
      /\ (op = "Get" /\ arg = k) => res.val = m[k]

=============================================================================
